---- MODULE Spec2Model ----
(***************************************************************************)
(* Model of sequana_pipelines/variant_calling/main.py: the command-line    *)
(* entry point that parses its options, asks a PipelineManager to set up   *)
(* the working directory, patches two fields of the configuration and asks *)
(* the manager to tear down.                                                *)
(*                                                                          *)
(* One invocation of main() is one behaviour.  The argument list, the      *)
(* current working directory, the template configuration shipped with the  *)
(* pipeline and the destinations contributed by the delegated option       *)
(* groups (SlurmOptions, SnakemakeOptions: code of the sequana library)    *)
(* are inputs fixed in Init.                                                *)
(***************************************************************************)
EXTENDS Integers, Sequences, FiniteSets, TLC

VARIABLES argv, cwd, delegated, template, disk0,
          pc, options, manager, cfg, disk, exit, failure, trace

vars == <<argv, cwd, delegated, template, disk0,
          pc, options, manager, cfg, disk, exit, failure, trace>>

inputs == <<argv, cwd, delegated, template, disk0>>

-----------------------------------------------------------------------------
(* Values.  An optional command-line flag is <<>> when it is omitted and   *)
(* <<token>> when it is given.  A path is a flag saying whether it starts  *)
(* with "/" and the sequence of its components.                            *)

Absent == <<>>

Given(tok) == <<tok>>

IsGiven(flag) == Len(flag) > 0

Path(isabs, parts) == [abs |-> isabs, parts |-> parts]

NoOptions == [none |-> TRUE]

NoConfig == [none |-> TRUE]

EmptyDisk == [staged |-> FALSE, config |-> NoConfig, launcher |-> "none"]

-----------------------------------------------------------------------------
(* int(token), the conversion argparse applies to --threads (type=int).    *)

DigitChars == {"0", "1", "2", "3", "4", "5", "6", "7", "8", "9"}

DigitVal(c) ==
    CASE c = "0" -> 0 [] c = "1" -> 1 [] c = "2" -> 2 [] c = "3" -> 3
      [] c = "4" -> 4 [] c = "5" -> 5 [] c = "6" -> 6 [] c = "7" -> 7
      [] c = "8" -> 8 [] c = "9" -> 9

IsInt(tok) ==
    LET body == IF Len(tok) > 0 /\ tok[1] = "-" THEN Tail(tok) ELSE tok
    IN  /\ Len(body) > 0
        /\ \A i \in 1..Len(body) : body[i] \in DigitChars

RECURSIVE IntAcc(_, _)
IntAcc(s, acc) ==
    IF s = <<>> THEN acc ELSE IntAcc(Tail(s), 10 * acc + DigitVal(Head(s)))

IntOf(tok) ==
    IF tok[1] = "-" THEN 0 - IntAcc(Tail(tok), 0) ELSE IntAcc(tok, 0)

-----------------------------------------------------------------------------
(* os.path.abspath: join the working directory in front of a relative      *)
(* path, then normalise ("." dropped, ".." removes the component before    *)
(* it, and is dropped at the root).                                         *)

RECURSIVE NormParts(_, _)
NormParts(parts, acc) ==
    IF parts = <<>> THEN acc
    ELSE LET h == Head(parts)
         IN  IF h = "." THEN NormParts(Tail(parts), acc)
             ELSE IF h = ".."
                  THEN NormParts(Tail(parts),
                                 IF acc = <<>> THEN acc
                                 ELSE SubSeq(acc, 1, Len(acc) - 1))
                  ELSE NormParts(Tail(parts), Append(acc, h))

Abspath(wd, p) ==
    Path(TRUE, NormParts(IF p.abs THEN p.parts ELSE wd.parts \o p.parts, <<>>))

-----------------------------------------------------------------------------
(* The option parser of Options.__init__ and parse_args.                   *)

RunModeChoices == {"local", "slurm"}

DefaultThreads == 4

DefaultOutdir == "fastqc"

DefaultInputPattern == "*fastq.gz"

(* Variant: the choices of --run-mode are not enforced.                     *)
UsageErrorNoChoices(av) ==
    \/ ~IsGiven(av.run_mode)
    \/ ~IsGiven(av.fastq_directory)
    \/ IsGiven(av.threads) /\ ~IsInt(av.threads[1])

UsageError(av) ==
    \/ ~IsGiven(av.run_mode)
    \/ IsGiven(av.run_mode) /\ av.run_mode[1] \notin RunModeChoices
    \/ ~IsGiven(av.fastq_directory)
    \/ IsGiven(av.threads) /\ ~IsInt(av.threads[1])

(* Variant: --output-directory takes the default written for              *)
(* --fastq-directory.                                                       *)
OwnNamespaceOutdirDot(av) ==
    [run_mode        |-> av.run_mode[1],
     outdir          |-> IF IsGiven(av.outdir) THEN av.outdir[1] ELSE ".",
     fastq_directory |-> av.fastq_directory[1],
     input_pattern   |-> IF IsGiven(av.input_pattern) THEN av.input_pattern[1]
                         ELSE DefaultInputPattern,
     threads         |-> IF IsGiven(av.threads) THEN IntOf(av.threads[1])
                         ELSE DefaultThreads]

OwnNamespace(av) ==
    [run_mode        |-> av.run_mode[1],
     outdir          |-> IF IsGiven(av.outdir) THEN av.outdir[1] ELSE DefaultOutdir,
     fastq_directory |-> av.fastq_directory[1],
     input_pattern   |-> IF IsGiven(av.input_pattern) THEN av.input_pattern[1]
                         ELSE DefaultInputPattern,
     threads         |-> IF IsGiven(av.threads) THEN IntOf(av.threads[1])
                         ELSE DefaultThreads]

ParseArgs(av, deleg) == OwnNamespace(av) @@ deleg

-----------------------------------------------------------------------------
(* Attribute access on the Namespace and on the configuration object.      *)

HasAttr(obj, name) == name \in DOMAIN obj

SetAttr(obj, name, val) ==
    [k \in (DOMAIN obj) \cup {name} |-> IF k = name THEN val ELSE obj[k]]

(* The option main() reads for the input directory, and the configuration  *)
(* fields it writes.                                                        *)
InputDirectoryDest == "bcl_directory"

ThreadsDest == "threads"

(* Variant: the thread count goes to the aligner's section.                *)
ThreadsSectionBwa == "bwa_mem"

ThreadsSection == "bcl2fastq"

PatchInputDirectory(c, opts, wd) ==
    SetAttr(c, "input_directory", Abspath(wd, opts[InputDirectoryDest]))

(* Variant: the section is replaced instead of one field being set.        *)
PatchThreadsWholeSection(c, opts) ==
    SetAttr(c, ThreadsSection, [threads |-> opts[ThreadsDest]])

PatchThreads(c, opts) ==
    SetAttr(c, ThreadsSection, SetAttr(c[ThreadsSection], "threads", opts[ThreadsDest]))

(* Variant: a handler removes the working directory when a step fails.     *)
OnErrorCleanup(d) == EmptyDisk

(* main() has no try/except/finally: an exception raised by a step leaves  *)
(* the working directory as that step left it.                             *)
OnError(d) == d

-----------------------------------------------------------------------------
(* The statements of main() in program order.                              *)

(* Variant: teardown is called right after setup, before the patch.        *)
AfterTeardownFirst(step) ==
    CASE step = "parse"         -> "construct"
      [] step = "construct"     -> "setup"
      [] step = "setup"         -> "teardown"
      [] step = "teardown"      -> "patch_input"
      [] step = "patch_input"   -> "patch_threads"
      [] step = "patch_threads" -> "done"

After(step) ==
    CASE step = "parse"         -> "construct"
      [] step = "construct"     -> "setup"
      [] step = "setup"         -> "patch_input"
      [] step = "patch_input"   -> "patch_threads"
      [] step = "patch_threads" -> "teardown"
      [] step = "teardown"      -> "done"

ExitAt(step) == IF After(step) = "done" THEN 0 ELSE -1

Fail(kind, code) ==
    /\ pc' = "failed"
    /\ failure' = kind
    /\ exit' = code

-----------------------------------------------------------------------------
(* Inputs.                                                                  *)

RunModeFlags == {Absent, Given("local"), Given("slurm"), Given("cloud")}

DataRun1 == Path(TRUE, <<"data", "run1">>)

FastqFlags == {Absent, Given(DataRun1), Given(Path(FALSE, <<"..", "run1">>))}

ThreadFlags == {Absent, Given(<<"8">>), Given(<<"1", "6">>), Given(<<"8", "x">>)}

OutdirFlags == {Absent, Given("out")}

PatternFlags == {Absent, Given("*.fq")}

Argvs ==
    [run_mode : RunModeFlags, fastq_directory : FastqFlags, threads : ThreadFlags,
     outdir : OutdirFlags, input_pattern : PatternFlags]

Cwds == {Path(TRUE, <<"home", "u">>), Path(TRUE, <<"data">>)}

(* What the delegated option groups add to the Namespace.  Their code is   *)
(* not part of this repository: the model ranges over a library that adds  *)
(* only its cluster and workflow-engine options and one that also defines  *)
(* a bcl_directory destination.                                             *)
LibraryDests == [slurm_queue |-> "common", jobs |-> 4]

Delegations ==
    {LibraryDests,
     [bcl_directory |-> Path(FALSE, <<"bcl">>)] @@ LibraryDests}

BaseTemplate ==
    [input_directory |-> Path(FALSE, <<>>),
     input_pattern   |-> "*fastq.gz",
     bwa_mem         |-> [threads |-> 2, index |-> "is"]]

Templates ==
    {BaseTemplate,
     [bcl2fastq |-> [threads |-> 1, ignore_missing |-> TRUE]] @@ BaseTemplate,
     [bcl2fastq |-> [ignore_missing |-> TRUE]] @@ BaseTemplate}

OldDisk ==
    [staged |-> TRUE, config |-> BaseTemplate, launcher |-> "local"]

Init ==
    /\ argv \in Argvs
    /\ cwd \in Cwds
    /\ delegated \in Delegations
    /\ template \in Templates
    /\ disk0 \in {EmptyDisk, OldDisk}
    /\ disk = disk0
    /\ pc = "parse"
    /\ options = NoOptions
    /\ manager = FALSE
    /\ cfg = NoConfig
    /\ exit = -1
    /\ failure = "none"
    /\ trace = <<>>

-----------------------------------------------------------------------------
(* options = Options(NAME).parse_args(args[1:])                            *)
Parse ==
    /\ pc = "parse"
    /\ IF UsageError(argv)
       THEN /\ Fail("usage", 2)
            /\ UNCHANGED options
       ELSE /\ options' = ParseArgs(argv, delegated)
            /\ pc' = After("parse")
            /\ exit' = ExitAt("parse")
            /\ UNCHANGED failure
    /\ trace' = Append(trace, "parse")
    /\ UNCHANGED <<inputs, manager, cfg, disk>>

(* manager = PipelineManager(options, NAME)                                *)
Construct ==
    /\ pc = "construct"
    /\ manager' = TRUE
    /\ pc' = After("construct")
    /\ exit' = ExitAt("construct")
    /\ trace' = Append(trace, "construct")
    /\ UNCHANGED <<inputs, options, cfg, disk, failure>>

(* manager.setup(): creates the working directory and stages the pipeline  *)
(* files; the configuration object is the template.  It may fail.          *)
Setup ==
    /\ pc = "setup"
    /\ \E ok \in BOOLEAN :
         IF ok
         THEN /\ disk' = [disk EXCEPT !.staged = TRUE]
              /\ cfg' = template
              /\ pc' = After("setup")
              /\ exit' = ExitAt("setup")
              /\ UNCHANGED failure
         ELSE /\ Fail("setup", 1)
              /\ UNCHANGED <<cfg, disk>>
    /\ trace' = Append(trace, "setup")
    /\ UNCHANGED <<inputs, options, manager>>

(* cfg.input_directory = os.path.abspath(options.bcl_directory)            *)
PatchInput ==
    /\ pc = "patch_input"
    /\ IF HasAttr(options, InputDirectoryDest)
       THEN /\ cfg' = PatchInputDirectory(cfg, options, cwd)
            /\ trace' = Append(trace, "set_input_directory")
            /\ pc' = After("patch_input")
            /\ exit' = ExitAt("patch_input")
            /\ disk' = disk
            /\ UNCHANGED failure
       ELSE /\ Fail("missing_option", 1)
            /\ disk' = OnError(disk)
            /\ UNCHANGED <<cfg, trace>>
    /\ UNCHANGED <<inputs, options, manager>>

(* cfg.bcl2fastq.threads = options.threads                                 *)
PatchThreadsStep ==
    /\ pc = "patch_threads"
    /\ IF ~HasAttr(options, ThreadsDest)
       THEN /\ Fail("missing_option", 1)
            /\ disk' = OnError(disk)
            /\ UNCHANGED <<cfg, trace>>
       ELSE IF ~HasAttr(cfg, ThreadsSection)
       THEN /\ Fail("missing_section", 1)
            /\ disk' = OnError(disk)
            /\ UNCHANGED <<cfg, trace>>
       ELSE /\ cfg' = PatchThreads(cfg, options)
            /\ trace' = Append(trace, "set_threads")
            /\ pc' = After("patch_threads")
            /\ exit' = ExitAt("patch_threads")
            /\ disk' = disk
            /\ UNCHANGED failure
    /\ UNCHANGED <<inputs, options, manager>>

(* manager.teardown(): writes the configuration and the launcher.  It may  *)
(* fail before writing anything or after writing the configuration.        *)
Teardown ==
    /\ pc = "teardown"
    /\ \E outcome \in {"ok", "fail_early", "fail_late"} :
         CASE outcome = "ok" ->
                /\ disk' = [disk EXCEPT !.config = cfg, !.launcher = options.run_mode]
                /\ pc' = After("teardown")
                /\ exit' = ExitAt("teardown")
                /\ UNCHANGED failure
           [] outcome = "fail_early" ->
                /\ Fail("teardown", 1)
                /\ disk' = OnError(disk)
           [] outcome = "fail_late" ->
                /\ Fail("teardown", 1)
                /\ disk' = OnError([disk EXCEPT !.config = cfg])
    /\ trace' = Append(trace, "teardown")
    /\ UNCHANGED <<inputs, options, manager, cfg>>

Next ==
    \/ Parse
    \/ Construct
    \/ Setup
    \/ PatchInput
    \/ PatchThreadsStep
    \/ Teardown

Spec == Init /\ [][Next]_vars

-----------------------------------------------------------------------------
(* Properties.                                                              *)

Terminated == pc \in {"done", "failed"}

IsConfig(c) == "none" \notin DOMAIN c

Called(ev) == \E i \in 1..Len(trace) : trace[i] = ev

(* The argument lists the specification calls usage errors.                *)
ClaimedUsageError ==
    \/ ~IsGiven(argv.run_mode)
    \/ ~IsGiven(argv.fastq_directory)
    \/ IsGiven(argv.run_mode) /\ argv.run_mode[1] \notin {"local", "slurm"}
    \/ IsGiven(argv.threads) /\ ~IsInt(argv.threads[1])

(* C1: for every argument list with --fastq-directory and --run-mode local *)
(* or slurm (other options valid), when setup() and teardown() do not      *)
(* fail, main() runs parse, setup, patch and teardown to completion and    *)
(* exits 0.  The template is taken to have the section the patch writes.   *)
C1_RunsToCompletion ==
    (/\ Terminated
     /\ ~ClaimedUsageError
     /\ HasAttr(template, "bcl2fastq")
     /\ failure \notin {"setup", "teardown"})
    => (pc = "done" /\ exit = 0)

(* C2: every usage error ends the process at parse time with a non-zero    *)
(* exit, before the manager is constructed or setup() is called, and the   *)
(* working directory is not touched.                                        *)
C2_UsageErrorsStopAtParse ==
    (ClaimedUsageError /\ pc # "parse")
    => /\ pc = "failed"
       /\ failure = "usage"
       /\ exit > 0
       /\ ~manager
       /\ ~Called("construct")
       /\ ~Called("setup")
       /\ cfg = NoConfig
       /\ disk = disk0

C2_Witness ==
    /\ pc = "failed"
    /\ failure = "usage"
    /\ IsGiven(argv.run_mode)
    /\ argv.run_mode[1] = "cloud"
    /\ IsGiven(argv.fastq_directory)

ConfigMutations == {"set_input_directory", "set_threads"}

C4_Order ==
    /\ \A i \in 1..Len(trace) :
          trace[i] \in ConfigMutations
          => /\ \E j \in 1..(i - 1) : trace[j] = "setup"
             /\ \A j \in 1..(i - 1) : trace[j] # "teardown"
    /\ Cardinality({i \in 1..Len(trace) : trace[i] = "teardown"}) <= 1
    /\ pc = "done"
          => Cardinality({i \in 1..Len(trace) : trace[i] = "teardown"}) = 1
    /\ ~Called("setup") => cfg = NoConfig

C4_WritesOnlyAtTeardown ==
    (disk'.config # disk.config \/ disk'.launcher # disk.launcher)
    => (pc = "teardown" /\ trace' = Append(trace, "teardown"))

C9_FailureStep ==
    /\ pc # "failed"
    /\ (pc' = "failed" /\ pc \in {"patch_input", "patch_threads", "teardown"})
          => /\ disk'.staged = disk.staged
             /\ disk'.staged
             /\ disk'.launcher = disk.launcher
             /\ pc \in {"patch_input", "patch_threads"} => disk' = disk
             /\ exit' > 0
             /\ cfg' = cfg

C9_NoRollback == [][C9_FailureStep]_vars

C9_Witness ==
    /\ pc = "failed"
    /\ failure \in {"missing_option", "missing_section", "teardown"}
    /\ disk.staged
    /\ ~disk0.staged

(* C10: every field main() reads from the parsed options during the patch  *)
(* is a destination the parser defines, so after a successful parse the    *)
(* patch never fails because an option field is missing.                   *)
C10_OptionFieldsDefined ==
    pc # "parse" /\ failure # "usage"
    => /\ failure # "missing_option"
       /\ pc = "patch_input" => HasAttr(options, InputDirectoryDest)
       /\ pc = "patch_threads" => HasAttr(options, ThreadsDest)

====
